---- MODULE Spec2Model ----
(***************************************************************************)
(* catalaunch (python/sb/catalaunch.c): the client that connects to the    *)
(* catapult's Unix-domain socket, sends the working directory and the      *)
(* command-line arguments as one escaped message, and prints what comes    *)
(* back until the peer closes.                                             *)
(*                                                                         *)
(* Characters and bytes are their C values (ASCII codes); a C string is    *)
(* the sequence of its characters without the terminating NUL.  The        *)
(* program is one sequential process; pc is its position in main().        *)
(***************************************************************************)
EXTENDS Integers, Sequences, FiniteSets, TLC

\* ------------------------------------------------------------ constants

PWD_LEN == 1024
SEND_LEN == 8192
RECV_LEN == 1024
\* sizeof(remote.sun_path) and sizeof(remote.sun_family) of struct
\* sockaddr_un (<sys/un.h>, Linux)
SUN_PATH_LEN == 108
SUN_FAMILY_LEN == 2

SPACE == 32
BACKSLASH == 92
NUL == 0

\* ------------------------------------------------------------ bounds

\* most characters in the arguments after the socket file, all together
MaxChars == 3
\* most arguments after the socket file
MaxArgs == 2
\* most characters of an enumerated working directory
MaxCwdLen == 1
\* most chunks the peer delivers before it closes
MaxRecv == 2
\* longest enumerated short chunk
MaxChunk == 2

\* ------------------------------------------------------------ strings

\* 'a', ' ' and '\': an ordinary character and the two escaped ones
Chars == {97, SPACE, BACKSLASH}
\* bytes of the response: NUL and 'A'
Bytes == {NUL, 65}

Fill(ch, len) == [i \in 1..len |-> ch]

StringsOfLen(len) == [1..len -> Chars]

StringsUpTo(len) == UNION {StringsOfLen(k) : k \in 0..len}

\* lists of cnt strings with at most total characters all together
RECURSIVE ListsOf(_, _)
ListsOf(cnt, total) ==
    IF cnt = 0 THEN {<<>>}
    ELSE UNION {{<<a>> \o rest : rest \in ListsOf(cnt - 1, total - Len(a))}
                    : a \in StringsUpTo(total)}

\* argv as main() gets it: argv[0] the program name, argv[1] the socket
\* file, argv[2..] the arguments to forward
MkArgv(prog, sockfile, args) ==
    [i \in 0..(Len(args) + 1) |->
        IF i = 0 THEN prog ELSE IF i = 1 THEN sockfile ELSE args[i - 1]]

ProgName == <<99>>
ShortSockfile == <<115>>
\* socket file names that fill sun_path and leave no room for the NUL, and
\* that are longer than sun_path
LongSockfiles == {Fill(115, SUN_PATH_LEN), Fill(115, SUN_PATH_LEN + 1)}

\* ------------------------------------------------------------ inputs

\* the forwarded arguments: 1..MaxArgs of them, MaxChars characters in all
SmallArgLists == UNION {ListsOf(k, MaxChars) : k \in 1..MaxArgs}

\* getcwd() never gives an empty path
SmallCwds == StringsUpTo(MaxCwdLen) \ {<<>>}

\* a working directory whose path does not fit pwd[PWD_LEN] with its NUL
LongCwd == Fill(97, PWD_LEN)

\* what the never-set pwd[] may hold as a string when getcwd() fails
PwdGarbage == StringsUpTo(1)

ShortChunks == UNION {[1..k -> Bytes] : k \in 1..MaxChunk}

\* a chunk that fills str[RECV_LEN], and one a byte shorter
Chunks == ShortChunks \cup {Fill(65, RECV_LEN), Fill(65, RECV_LEN - 1)}

\* what recv() returns once the peer has no more to deliver: 0 (it closed)
\* or -1 (an error)
RecvEnds == {0, -1}

Run(av, dir, peer0) ==
    [argc |-> Cardinality(DOMAIN av), argv |-> av, cwd |-> dir, peer |-> peer0]

\* too few arguments: the program name alone, or with the socket file only
UsageRuns ==
    {Run(MkArgv(ProgName, ShortSockfile, <<>>), <<97>>, 0),
     Run([i \in {0} |-> ProgName], <<97>>, 0)}

\* every small argument list in every small directory; the peer writes nothing
MessageRuns ==
    {Run(MkArgv(ProgName, ShortSockfile, args), dir, 0) :
        args \in SmallArgLists, dir \in SmallCwds}

\* one plain invocation against a peer that writes up to MaxRecv chunks
RelayRuns ==
    {Run(MkArgv(ProgName, ShortSockfile, <<<<97>>>>), <<97>>, MaxRecv)}

\* arguments at the SEND_LEN cap, in directory "a" (2 bytes are taken by
\* the directory and the first separator):
\*   SEND_LEN - 2 characters fill msg[] exactly,
\*   SEND_LEN - 3 characters leave p = SEND_LEN - 1 and stop the copy loop,
\*   SEND_LEN - 4 characters leave room for one more separator,
\*   SEND_LEN characters run past the end of msg[]
CapArgLists ==
    {<<Fill(97, SEND_LEN - 2)>>,
     <<Fill(97, SEND_LEN - 3), <<>>>>,
     <<Fill(97, SEND_LEN - 3), <<97>>>>,
     <<Fill(97, SEND_LEN - 4), <<>>>>,
     <<Fill(97, SEND_LEN - 4), <<97, 97>>>>,
     <<Fill(97, SEND_LEN)>>}

CapRuns ==
    {Run(MkArgv(ProgName, ShortSockfile, args), <<97>>, 0) :
        args \in CapArgLists}

\* the socket file name and the working directory at their buffers' sizes
LongNameRuns ==
    {Run(MkArgv(ProgName, sockfile, <<<<97>>, <<97>>>>), <<97>>, 0) :
        sockfile \in LongSockfiles}
    \cup {Run(MkArgv(ProgName, ShortSockfile, <<<<97>>>>), LongCwd, 0)}

Runs == UsageRuns \cup MessageRuns \cup RelayRuns \cup CapRuns \cup LongNameRuns

\* ------------------------------------------------------------ main()'s loops

\* EscapeChar without the escape of the backslash itself
EscapeCharSpaceOnly(ch) ==
    IF ch = SPACE THEN <<BACKSLASH, ch>> ELSE <<ch>>

\* the body of both copy loops: a backslash goes before ' ' and '\'
EscapeChar(ch) ==
    IF ch = SPACE \/ ch = BACKSLASH THEN <<BACKSLASH, ch>> ELSE <<ch>>

\* what one copy loop appends to msg for the string str: the loop body
\* applied to each character in order.  The string is halved rather than
\* peeled from the front, which keeps the evaluation depth logarithmic for
\* arguments as long as SEND_LEN.
RECURSIVE Escape(_)
Escape(str) ==
    IF Len(str) = 0 THEN <<>>
    ELSE IF Len(str) = 1 THEN EscapeChar(str[1])
    ELSE LET h == Len(str) \div 2
         IN  Escape(SubSeq(str, 1, h)) \o Escape(SubSeq(str, h + 1, Len(str)))

\* ArgLoopCond that stops one argument early
ArgLoopCondOffByOne(arg0, argc0, p0) == arg0 < argc0 - 1 /\ p0 < SEND_LEN - 1

\* the copy loop of the arguments goes on while this holds
ArgLoopCond(arg0, argc0, p0) == arg0 < argc0 /\ p0 < SEND_LEN - 1

\* what printf("%s", buf) writes: the bytes before the first NUL
CString(buf) ==
    LET nuls == {i \in 1..Len(buf) : buf[i] = NUL}
    IN  IF nuls = {} THEN buf
        ELSE SubSeq(buf, 1, (CHOOSE i \in nuls : \A j \in nuls : i <= j) - 1)

\* "Example usage:\n\n\t%s sockfile -m sb.noop --flags flag\n"
UsageText(prog) ==
    <<69, 120, 97, 109, 112, 108, 101, 32, 117, 115, 97, 103, 101, 58, 10, 10, 9>>
    \o CString(prog \o <<NUL>>)
    \o <<32, 115, 111, 99, 107, 102, 105, 108, 101, 32, 45, 109, 32,
         115, 98, 46, 110, 111, 111, 112, 32, 45, 45, 102, 108, 97, 103, 115,
         32, 102, 108, 97, 103, 10>>

\* the outcomes of connect(s, &remote, len): the kernel takes no address
\* longer than struct sockaddr_un
ConnectResults(len) ==
    IF len <= SUN_FAMILY_LEN + SUN_PATH_LEN THEN {TRUE, FALSE} ELSE {FALSE}

\* the outcomes of send(s, msg, len, 0): -1, or the bytes taken (all of
\* them, or fewer on a stream socket)
SendResults(len) == {-1, len, (len + 1) \div 2}

\* ------------------------------------------------------------ state

VARIABLES
    argc, argv,     \* main()'s parameters
    cwd,            \* the working directory of the process
    peer,           \* how many chunks the peer may still deliver
    pc,             \* the position in main()
    s,              \* the socket: "none", "open", "connected", "closed"
    pwd, msg, p, arg,   \* the message and its construction
    str, n,         \* the receive buffer and recv()'s last result
    out, err,       \* what went to stdout and to stderr
    status,         \* the exit status, once pc is "exited" or "killed"
    oob,            \* the buffers written past their end
    wire,           \* the bytes send() handed to the peer
    rcvd,           \* the bytes recv() took from the peer
    connects, sends, recvs, closes   \* calls made so far

vars == <<argc, argv, cwd, peer, pc, s, pwd, msg, p, arg, str, n, out, err,
          status, oob, wire, rcvd, connects, sends, recvs, closes>>

env == <<argc, argv, cwd>>
build == <<pwd, msg, p, arg>>
calls == <<connects, sends, recvs, closes>>

Init ==
    /\ \E r \in Runs :
          /\ argc = r.argc
          /\ argv = r.argv
          /\ cwd = r.cwd
          /\ peer = r.peer
    /\ pc = "validate"
    /\ s = "none"
    /\ pwd = <<>> /\ msg = <<>> /\ p = 0 /\ arg = 0
    /\ str = <<>> /\ n = 0
    /\ out = <<>> /\ err = <<>>
    /\ status = 0
    /\ oob = {}
    /\ wire = <<>> /\ rcvd = <<>>
    /\ connects = 0 /\ sends = 0 /\ recvs = 0 /\ closes = 0

\* Validate that asks for the socket file only (argc <= 1)
ValidateSockfileOnly ==
    /\ pc = "validate"
    /\ IF argc <= 1
         THEN /\ out' = out \o UsageText(argv[0])
              /\ status' = 255
              /\ pc' = "exited"
         ELSE /\ pc' = "socket"
              /\ UNCHANGED <<out, status>>
    /\ UNCHANGED <<env, peer, s, build, str, n, err, oob, wire, rcvd, calls>>

\* lines 36-40: a script needs to be specified
Validate ==
    /\ pc = "validate"
    /\ IF argc <= 2
         THEN /\ out' = out \o UsageText(argv[0])
              /\ status' = 255
              /\ pc' = "exited"
         ELSE /\ pc' = "socket"
              /\ UNCHANGED <<out, status>>
    /\ UNCHANGED <<env, peer, s, build, str, n, err, oob, wire, rcvd, calls>>

\* lines 45-49: open the socket
Socket ==
    /\ pc = "socket"
    /\ \E ok \in BOOLEAN :
          IF ok
            THEN /\ s' = "open"
                 /\ pc' = "connect"
                 /\ UNCHANGED <<err, status>>
            ELSE /\ err' = Append(err, "socket")
                 /\ status' = 1
                 /\ pc' = "exited"
                 /\ UNCHANGED s
    /\ UNCHANGED <<env, peer, build, str, n, out, oob, wire, rcvd, calls>>

\* lines 51-58: strcpy() into remote.sun_path copies the name and its NUL,
\* whatever the length; then one connect()
Connect ==
    /\ pc = "connect"
    /\ oob' = IF Len(argv[1]) + 1 > SUN_PATH_LEN THEN oob \cup {"sun_path"} ELSE oob
    /\ connects' = connects + 1
    /\ \E ok \in ConnectResults(Len(argv[1]) + SUN_FAMILY_LEN) :
          IF ok
            THEN /\ s' = "connected"
                 /\ pc' = "getcwd"
                 /\ UNCHANGED <<err, status>>
            ELSE /\ err' = Append(err, "connect")
                 /\ status' = 1
                 /\ pc' = "exited"
                 /\ UNCHANGED s
    /\ UNCHANGED <<env, peer, build, str, n, out, wire, rcvd, sends, recvs, closes>>

\* line 64: getcwd(pwd, PWD_LEN), its result not looked at: when the path
\* and its NUL do not fit, getcwd() fails and pwd[] is left as it was,
\* never set; the copy loop then reads whatever string lies there
Getcwd ==
    /\ pc = "getcwd"
    /\ IF Len(cwd) + 1 <= PWD_LEN
         THEN pwd' = cwd
         ELSE pwd' \in PwdGarbage
    /\ pc' = "cwdloop"
    /\ UNCHANGED <<env, peer, s, msg, p, arg, str, n, out, err, status, oob, wire, rcvd, calls>>

\* lines 65-69: the cwd is first in the message
CopyCwd ==
    /\ pc = "cwdloop"
    /\ msg' = msg \o Escape(pwd)
    /\ p' = p + Len(Escape(pwd))
    /\ arg' = 2
    /\ pc' = "argloop"
    /\ UNCHANGED <<env, peer, s, pwd, str, n, out, err, status, oob, wire, rcvd, calls>>

\* lines 74-83, one turn of the loop: a space, then argument #arg.  msg
\* holds what was written from &msg[0] on, past msg[SEND_LEN - 1] too.
\* p only grows within the turn (nothing bounds it there), so its value
\* after the turn is the largest it takes.
CopyArg ==
    /\ pc = "argloop"
    /\ ArgLoopCond(arg, argc, p)
    /\ msg' = msg \o <<SPACE>> \o Escape(argv[arg])
    /\ p' = p + 1 + Len(Escape(argv[arg]))
    /\ oob' = IF p' > SEND_LEN THEN oob \cup {"msg"} ELSE oob
    /\ arg' = arg + 1
    /\ UNCHANGED <<env, peer, pc, s, pwd, str, n, out, err, status, wire, rcvd, calls>>

\* line 74, the loop's exit
ArgLoopDone ==
    /\ pc = "argloop"
    /\ ~ArgLoopCond(arg, argc, p)
    /\ pc' = "send"
    /\ UNCHANGED <<env, peer, s, build, str, n, out, err, status, oob, wire, rcvd, calls>>

\* Send that reports an error and goes on to receive
SendThenReceiveAnyway ==
    /\ pc = "send"
    /\ sends' = sends + 1
    /\ \E r \in SendResults(p) :
          IF r < 0
            THEN /\ err' = Append(err, "send")
                 /\ pc' = "recv"
                 /\ UNCHANGED <<wire, status>>
            ELSE /\ wire' = wire \o SubSeq(msg, 1, r)
                 /\ pc' = "recv"
                 /\ UNCHANGED <<err, status>>
    /\ UNCHANGED <<env, peer, s, build, str, n, out, oob, rcvd, connects, recvs, closes>>

\* lines 85-89: one send() of p bytes; on an error, return -1
Send ==
    /\ pc = "send"
    /\ sends' = sends + 1
    /\ \E r \in SendResults(p) :
          IF r < 0
            THEN /\ err' = Append(err, "send")
                 /\ status' = 255
                 /\ pc' = "exited"
                 /\ UNCHANGED wire
            ELSE /\ wire' = wire \o SubSeq(msg, 1, r)
                 /\ pc' = "recv"
                 /\ UNCHANGED <<err, status>>
    /\ UNCHANGED <<env, peer, s, build, str, n, out, oob, rcvd, connects, recvs, closes>>

\* lines 94-97, one turn of the loop: recv() gave n > 0 bytes; str[n] is
\* set to NUL and str is printed as a C string
RecvData ==
    /\ pc = "recv"
    /\ peer > 0
    /\ \E chunk \in Chunks :
          /\ n' = Len(chunk)
          /\ str' = chunk \o <<NUL>>
          /\ oob' = IF n' > RECV_LEN - 1 THEN oob \cup {"str"} ELSE oob
          /\ out' = out \o CString(str')
          /\ rcvd' = rcvd \o chunk
    /\ peer' = peer - 1
    /\ recvs' = recvs + 1
    /\ UNCHANGED <<env, pc, s, build, err, status, wire, connects, sends, closes>>

\* lines 94 and 98-102: recv() gave 0 (the peer closed) or -1; stdout is
\* flushed, and an error is reported
RecvEnd ==
    /\ pc = "recv"
    /\ n' \in RecvEnds
    /\ recvs' = recvs + 1
    /\ err' = IF n' < 0 THEN Append(err, "recv") ELSE err
    /\ pc' = "close"
    /\ UNCHANGED <<env, peer, s, build, str, out, status, oob, wire, rcvd, connects, sends, closes>>

\* line 104
Close ==
    /\ pc = "close"
    /\ s' = "closed"
    /\ closes' = closes + 1
    /\ pc' = "return"
    /\ UNCHANGED <<env, peer, build, str, n, out, err, status, oob, wire, rcvd, connects, sends, recvs>>

\* line 106
Return ==
    /\ pc = "return"
    /\ status' = 0
    /\ pc' = "exited"
    /\ UNCHANGED <<env, peer, s, build, str, n, out, err, oob, wire, rcvd, calls>>

\* Once a write has gone past the end of its buffer the behaviour is
\* undefined: the process may go on as if nothing happened (the other
\* actions), or be killed, at the write or at any later point up to the
\* return from main() (a smashed stack is found there).  134 is what a
\* shell shows for SIGABRT.
Crash ==
    /\ oob # {}
    /\ pc \notin {"exited", "killed"}
    /\ status' = 134
    /\ pc' = "killed"
    /\ UNCHANGED <<env, peer, s, build, str, n, out, err, oob, wire, rcvd, calls>>

Next ==
    \/ Validate
    \/ Socket
    \/ Connect
    \/ Getcwd
    \/ CopyCwd
    \/ CopyArg
    \/ ArgLoopDone
    \/ Send
    \/ RecvData
    \/ RecvEnd
    \/ Close
    \/ Return
    \/ Crash

Spec == Init /\ [][Next]_vars

\* ------------------------------------------------------------ the receiver's view

\* The message is read back the way its receiver reads it: a backslash
\* makes the next character literal, and a space that is not made literal
\* ends a field.

\* how many backslashes in a row end at position i of m
RECURSIVE BackslashRun(_, _)
BackslashRun(m, i) ==
    IF i = 0 \/ m[i] # BACKSLASH THEN 0 ELSE 1 + BackslashRun(m, i - 1)

\* the character at position i of m is made literal by the backslash before it
Escaped(m, i) == BackslashRun(m, i - 1) % 2 = 1

Separators(m) == {i \in 1..Len(m) : m[i] = SPACE /\ ~Escaped(m, i)}

\* the fields of m: what lies between its separators
Fields(m) ==
    LET seps == Separators(m)
        cnt == Cardinality(seps)
        sep(k) == IF k = 0 THEN 0
                  ELSE IF k = cnt + 1 THEN Len(m) + 1
                  ELSE CHOOSE i \in seps : Cardinality({j \in seps : j < i}) = k - 1
    IN  [k \in 1..(cnt + 1) |-> SubSeq(m, sep(k - 1) + 1, sep(k) - 1)]

\* the inverse of the escaping: every escaping backslash is dropped and the
\* character after it kept.  m is cut in two where no escape is split (after
\* the escaped character when the middle is an escaping backslash), which
\* keeps the evaluation depth logarithmic.
RECURSIVE Unescape(_)
Unescape(m) ==
    IF Len(m) = 0 THEN <<>>
    ELSE IF Len(m) = 1 THEN (IF m[1] = BACKSLASH THEN <<>> ELSE m)
    ELSE IF Len(m) = 2
           THEN (IF m[1] = BACKSLASH THEN <<m[2]>>
                 ELSE <<m[1]>> \o Unescape(<<m[2]>>))
    ELSE LET h == Len(m) \div 2
             cut == IF m[h] = BACKSLASH /\ ~Escaped(m, h) THEN h + 1 ELSE h
         IN  Unescape(SubSeq(m, 1, cut)) \o Unescape(SubSeq(m, cut + 1, Len(m)))

\* ------------------------------------------------------------ properties

Terminated == pc \in {"exited", "killed"}

Reported(what) == \E i \in 1..Len(err) : err[i] = what

\* the value of p when the copy of argument #k begins, were no argument
\* left out: the escaped directory, and a space and the escaped argument
\* for each of argv[2..k-1]
RECURSIVE PayloadBefore(_)
PayloadBefore(k) ==
    IF k <= 2 THEN Len(Escape(pwd))
    ELSE PayloadBefore(k - 1) + 1 + Len(Escape(argv[k - 1]))

\* the fields the message is to have: the escaped directory, then the
\* escaped argv[2..argc-1]
ExpectedFields ==
    [k \in 1..(argc - 1) |-> IF k = 1 THEN Escape(pwd) ELSE Escape(argv[k])]

\* C1: the write index p never exceeds SEND_LEN, nothing is written past
\* the end of msg, and so the length handed to send() is at most SEND_LEN.
C1_MessageWithinCap == p <= SEND_LEN /\ "msg" \notin oob

\* C2: a socket that was connected is closed exactly once before main()
\* returns or exits, on every exit path, and never twice.
C2_ClosedExactlyOnce ==
    /\ closes <= 1
    /\ (pc = "exited" /\ s \in {"connected", "closed"}) => (s = "closed" /\ closes = 1)

\* C3: after a clean close, stdout holds exactly the bytes the peer wrote,
\* whatever the bytes and however they were split into chunks.
C3_RelayFidelity ==
    (pc \in {"close", "return", "exited"} /\ recvs > 0 /\ n = 0) => out = rcvd

C5_EscapeRoundTrip ==
    pc \in {"argloop", "send"} =>
        \A k \in 1..(arg - 1) :
            Unescape(Fields(msg)[k]) = (IF k = 1 THEN pwd ELSE argv[k])

C5_Witness ==
    /\ pc = "send"
    /\ \E k \in 2..(arg - 1) :
          /\ \E i \in 1..Len(argv[k]) : argv[k][i] = SPACE
          /\ \E i \in 1..Len(argv[k]) : argv[k][i] = BACKSLASH
    /\ pwd \in {<<SPACE>>, <<BACKSLASH>>}

\* C6: the exit status is 0 when the send succeeded and the response was
\* relayed to a clean close, and non-zero after a usage error and after a
\* failed socket(), connect() or send().
C6_ExitStatus ==
    /\ (Terminated /\ recvs > 0 /\ n = 0) => status = 0
    /\ (Terminated /\ (argc <= 2 \/ Reported("socket") \/ Reported("connect")
                          \/ Reported("send")))
       => status # 0

\* C7: with fewer than two arguments after the program name, the usage text
\* goes to stdout, the status is non-zero, and no socket is made and no
\* connect, send or receive happens.
C7_UsageGate ==
    argc <= 2 =>
        /\ pc \in {"validate", "exited"}
        /\ pc = "exited" => (out = UsageText(argv[0]) /\ status # 0)
        /\ s = "none" /\ err = <<>>
        /\ connects = 0 /\ sends = 0 /\ recvs = 0 /\ closes = 0

C7_Witness == argc = 2 /\ pc = "exited"

\* what C8 says besides the count of connects: stdout is written only after
\* a connect and the one send succeeded; after a failed connect or send
\* nothing is received or written to stdout, and the failure is on stderr;
\* there is at most one send.
C8_OutputOnlyAfterSend ==
    argc > 2 =>
        /\ out # <<>> => (s \in {"connected", "closed"} /\ sends = 1 /\ ~Reported("send"))
        /\ (Reported("connect") \/ Reported("send")) => (recvs = 0 /\ out = <<>>)
        /\ (pc = "exited" /\ s = "open") => (Reported("connect") /\ status # 0)
        /\ (pc = "exited" /\ s = "connected") => (Reported("send") /\ status # 0)
        /\ sends <= 1

\* C8 as stated: all that, and exactly one connect attempt in every run
\* that passes the argument validation.
C8_ExactlyOneConnect ==
    /\ C8_OutputOnlyAfterSend
    /\ (Terminated /\ argc > 2) => connects = 1

\* C8, amended: never more than one connect attempt, and exactly one in the
\* runs in which socket() succeeded.
C8_AtMostOneConnect ==
    /\ C8_OutputOnlyAfterSend
    /\ connects <= 1
    /\ (Terminated /\ s # "none") => connects = 1

C8_Witness ==
    /\ pc = "exited"
    /\ Reported("send")
    /\ connects = 1 /\ sends = 1 /\ recvs = 0 /\ out = <<>>

\* C9: a socket file name too long for sun_path is found out and reported;
\* it is never copied past the end of sun_path.
C9_LongPathDetected ==
    /\ "sun_path" \notin oob
    /\ (argc > 1 /\ Len(argv[1]) + 1 > SUN_PATH_LEN) => s \in {"none", "open"}

\* C10: the NUL that ends the received chunk is written inside str, at an
\* index of 0..RECV_LEN-1, for every n that recv() may return.
C10_TerminatorInsideStr == n > 0 => n <= RECV_LEN - 1

====
